---- MODULE Spec2Model ----
(***************************************************************************)
(* Model of learnus-bot (src/main.py): the catalog scan of one course      *)
(* page (get_all_vods_under_course), the playback of one video (play_vod), *)
(* the worker run (play_vod_in_seperate_thread), the orchestrator (main)   *)
(* with its ThreadPoolExecutor, and the __main__ block around it.          *)
(***************************************************************************)
EXTENDS Integers, Sequences, FiniteSets, TLC

\* ------------------------------------------------------------------ bounds
MaxElems == 3        \* video elements on a course page of the scan specification
MaxCourses == 2      \* courses on the dashboard of a run
MaxThreads == 2      \* largest --max-threads of a run

VARIABLES
    \* one call of get_all_vods_under_course (ScanSpec)
    vod_elements,    \* the elements matched by ".vod.activity", in document order
    scan_i,          \* position of the for loop of lines 68-88
    vods,            \* the local list vods
    scan_pc,         \* "loop" | "dedup" | "returned"
    \* one run of the program (Spec)
    pc,              \* position of the main thread
    download,        \* --download
    max_threads,     \* --max-threads
    courses,         \* the list courses of main
    course,          \* the variable course of main (0: unbound), an index of courses
    all_vods,        \* the list all_vods
    non_completed_vods, \* the list non_completed_vods
    futures,         \* the list futures, each with the arguments of its call
    loop_i,          \* position of main's current for loop
    driver,          \* the bootstrap session: "none" | "open" | "closed"
    fetched,         \* download mode: indexes of all_vods whose page was opened
    downloaded,      \* download mode: indexes of all_vods handed to the downloader
    existed,         \* download mode: indexes of all_vods whose file was found to exist
    files,           \* the files of the working directory known to exist
    work_queue,      \* the executor's queue of submitted, not yet started work items
    thread,          \* thread[t]: the work item thread t runs, 0 when idle
    status,          \* status[i]: position of the worker run of work item i
    runner,          \* runner[i]: the set of threads that started work item i
    session,         \* session[i]: the worker's session: "none" | "open" | "closed"
    dialog,          \* dialog[i]: the native dialog of the video page: "none" (no page
                     \* followed) | "open" | "absent" | "accepted"
    player,          \* player[i]: the video player of the worker's session
    current_progress,\* current_progress[i]: the local current_progress of play_vod
    tasks,           \* the tasks of the shared Progress, in the order of their TaskID
    task1,           \* task1[i]: the local task1 of play_vod, 0 while unbound
    exception,       \* exception[i]: what the future of work item i holds, "none" if nothing
    main_exc,        \* how main ended: "none" | "Exception" | "KeyboardInterrupt"
    pkill            \* number of executions of os.system("pkill firefox")

scan_vars == <<vod_elements, scan_i, vods, scan_pc>>
main_vars == <<pc, download, max_threads, courses, course, all_vods,
               non_completed_vods, futures, loop_i, driver, fetched, downloaded, existed, files, main_exc,
               pkill>>
pool_vars == <<work_queue, thread, status, runner, session, dialog, player,
               current_progress, tasks, task1, exception>>
vars == <<scan_vars, main_vars, pool_vars>>

\* ------------------------------------------------------------------ data
\* Vod (lines 43-47); a link is the file of its path and its id parameter.
Vod(name, link, is_complete) ==
    [name |-> name, link |-> link, is_complete |-> is_complete]

ViewPhp == "view.php"
ViewerPhp == "viewer.php"
IconY == "completion-auto-y"
IconN == "completion-auto-n"
NoIcon == "NoSuchElement"

\* A matched ".vod.activity" element: the text of span.instancename, the href
\* of its a, and the src of its img.icon (NoIcon: there is no img.icon).
VodElement(name, path, id, icon) ==
    [name |-> name, href |-> [path |-> path, id |-> id], icon |-> icon]

VodElements ==
    { VodElement(n, p, id, ic) :
        n \in {"a", "b"}, p \in {ViewPhp}, id \in {1, 2}, ic \in {IconY, IconN, NoIcon} }
    \cup { VodElement("a", ViewerPhp, 1, IconN) }

SeqsUpTo(S, n) == UNION { [1..k -> S] : k \in 0..n }

\* vod_link.replace("view.php", "viewer.php") (line 82)
ReplaceViewPhp(href) ==
    IF href.path = ViewPhp THEN [href EXCEPT !.path = ViewerPhp] ELSE href

\* src.endswith("completion-auto-y") (lines 76-78)
EndsWithCompletionAutoY(src) == src = IconY

\* One iteration of the for loop (lines 68-88): the append is inside the try,
\* so an element without img.icon raises NoSuchElementException before the
\* append and the except clause drops it.
ScanElement(vs, e) ==
    IF e.icon = NoIcon
    THEN vs
    ELSE Append(vs, Vod(e.name, ReplaceViewPhp(e.href), EndsWithCompletionAutoY(e.icon)))

RECURSIVE ScanElements(_, _)
ScanElements(vs, es) ==
    IF es = <<>> THEN vs ELSE ScanElements(ScanElement(vs, Head(es)), Tail(es))

\* Faulty variant of the comprehension of lines 91-94: the seen-set is never filled.
RECURSIVE DedupNoAdd(_, _)
DedupNoAdd(vs, vod_links_set) ==
    IF vs = <<>> THEN <<>>
    ELSE IF Head(vs).link \in vod_links_set
         THEN DedupNoAdd(Tail(vs), vod_links_set)
         ELSE <<Head(vs)>> \o DedupNoAdd(Tail(vs), vod_links_set)

\* [v for v in vods if not (v.link in vod_links_set or vod_links_set.add(v.link))]
\* (lines 91-94): set.add returns None, so a link not yet seen is added and kept.
RECURSIVE DedupByLink(_, _)
DedupByLink(vs, vod_links_set) ==
    IF vs = <<>> THEN <<>>
    ELSE IF Head(vs).link \in vod_links_set
         THEN DedupByLink(Tail(vs), vod_links_set)
         ELSE <<Head(vs)>> \o DedupByLink(Tail(vs), vod_links_set \cup {Head(vs).link})

\* get_all_vods_under_course (lines 61-96) on a page with the elements es
get_all_vods_under_course(es) == DedupByLink(ScanElements(<<>>, es), {})


\* --------------------------------------------------- ScanSpec: one page scan
\* The variables of a run, while no run is modelled.
NoRun ==
    /\ pc = "none" /\ download = FALSE /\ max_threads = 1
    /\ courses = <<>> /\ course = 0 /\ all_vods = <<>> /\ non_completed_vods = <<>>
    /\ futures = <<>>
    /\ loop_i = 0 /\ driver = "none" /\ fetched = {} /\ downloaded = {} /\ existed = {}
    /\ files = {}
    /\ main_exc = "none" /\ pkill = 0
    /\ work_queue = <<>> /\ thread = <<>> /\ status = <<>> /\ runner = <<>>
    /\ session = <<>> /\ player = <<>> /\ current_progress = <<>> /\ tasks = <<>>
    /\ task1 = <<>>
    /\ exception = <<>> /\ dialog = <<>>

ScanInit ==
    /\ vod_elements \in SeqsUpTo(VodElements, MaxElems)
    /\ scan_i = 1
    /\ vods = <<>>
    /\ scan_pc = "loop"
    /\ NoRun

\* lines 68-88, one element
ScanLoop ==
    /\ scan_pc = "loop"
    /\ scan_i <= Len(vod_elements)
    /\ vods' = ScanElement(vods, vod_elements[scan_i])
    /\ scan_i' = scan_i + 1
    /\ UNCHANGED <<vod_elements, scan_pc, main_vars, pool_vars>>

\* the for loop is exhausted
ScanLoopEnd ==
    /\ scan_pc = "loop"
    /\ scan_i > Len(vod_elements)
    /\ scan_pc' = "dedup"
    /\ UNCHANGED <<vod_elements, scan_i, vods, main_vars, pool_vars>>

\* lines 90-96
ScanDedup ==
    /\ scan_pc = "dedup"
    /\ vods' = DedupByLink(vods, {})
    /\ scan_pc' = "returned"
    /\ UNCHANGED <<vod_elements, scan_i, main_vars, pool_vars>>

ScanNext == ScanLoop \/ ScanLoopEnd \/ ScanDedup

ScanSpec == ScanInit /\ [][ScanNext]_vars

\* ------------------------------------------------------ Spec: one program run
MaxPageElems == 2    \* video elements on a course page of a run

\* The video elements a course page of a run is made of.
SiteElements ==
    { VodElement("a", ViewPhp, 1, IconN),
      VodElement("c", ViewPhp, 3, NoIcon) }

CoursePages == SeqsUpTo(SiteElements, MaxPageElems)

\* The same with a video that is already complete.
CatalogElements == SiteElements \cup { VodElement("b", ViewPhp, 2, IconY) }
CatalogPages == SeqsUpTo(CatalogElements, MaxPageElems)

\* The page of course k: the id of a video module is the id of one module of
\* one course, so the links of two courses differ.
PageOfCourse(k, page) ==
    [j \in 1..Len(page) |-> [page[j] EXCEPT !.href.id = <<k, @>>]]

\* The course whose page has the link.
CourseOfLink(link) == link.id[1]

\* Course (lines 37-40); course k of the dashboard has the k-th title and link k.
Titles == <<"Algorithms", "Networks", "Compilers", "Databases", "Logic">>
Course(k) == [title |-> Titles[k], link |-> k]

\* hashlib.md5((course.title + vod.name).encode()).hexdigest() + ".mp4"
\* (lines 306-308); the digest is taken to be free of collisions.
Filename(title, name) == "md5(" \o title \o name \o ").mp4"

\* A page adds one entry per distinct link of its elements with an icon, and
\* a work item per such entry that is not complete.
MaxItems == MaxCourses * Cardinality({ e.href : e \in { x \in SiteElements : x.icon = IconN } })
Items == 1..MaxItems
Threads == 1..MaxThreads

\* The player: the attributes aria-valuemin, aria-valuemax of its progress
\* holder, and the position (aria-valuenow) at which the playback stalls.
Checkpoints == {500, 995, 1000}
Videos ==
    { [value_min |-> 0, value_max |-> 1000, stall |-> s] : s \in Checkpoints }
    \cup { [value_min |-> 0, value_max |-> 0, stall |-> 0] }

NoVideo == [value_min |-> 0, value_max |-> 0, stall |-> 0]
NoPlayer == [video |-> NoVideo, value_now |-> 0]
NoProgress == [num |-> 0, den |-> 0]
NoTask == [registered |-> FALSE, completed |-> NoProgress]

\* Progress.add_task (lines 171-173): under the lock of the Progress a task
\* with the next TaskID is added, completed = 0 (here: nothing read yet).
add_task(ts) == Append(ts, [registered |-> TRUE, completed |-> NoProgress])

\* Progress.update(task_id, completed = c) (line 178)
update(ts, task_id, c) == [ts EXCEPT ![task_id].completed = c]

SetMin(S) == CHOOSE x \in S : \A y \in S : x <= y

\* The player between two polls: it plays on to the next checkpoint, unless
\* it has stalled.
PlayerAdvance(p) ==
    LET ahead == { c \in Checkpoints : c > p.value_now /\ c <= p.video.stall }
    IN  IF ahead = {} THEN p ELSE [p EXCEPT !.value_now = SetMin(ahead)]

\* The attributes read at lines 122-124.
Reading(p) ==
    [value_now |-> p.value_now, value_min |-> p.video.value_min,
     value_max |-> p.video.value_max]

\* line 130 raises ZeroDivisionError when value_max = value_min
Divides(r) == r.value_max - r.value_min # 0

\* _vod_get_current_progress (line 130), as the exact fraction num / den
vod_get_current_progress(r) ==
    [num |-> r.value_now - r.value_min, den |-> r.value_max - r.value_min]

\* current_progress * 10000 (line 178)
Times10000(q) == [num |-> q.num * 10000, den |-> q.den]

\* Faulty variant of line 180: >= for >.
AtLeastThreshold(q) ==
    IF q.den > 0 THEN q.num * 1000 >= 995 * q.den ELSE q.num * 1000 <= 995 * q.den

\* current_progress > 0.995 (line 180)
ExceedsThreshold(q) ==
    IF q.den > 0 THEN q.num * 1000 > 995 * q.den ELSE q.num * 1000 < 995 * q.den

\* Faulty variant of lines 180-182: the loop never breaks.
NeverBreak(q) == "POLLING"

\* lines 180-182: break out of the while loop, or go on polling
AfterPoll(q) == IF ExceedsThreshold(q) THEN "DONE" ELSE "POLLING"

\* Faulty variant of lines 249-259 and 335-336: a failed work item is submitted again.
RequeueAfterFailure(q, i) == Append(q, i)

\* The executor's queue after a work item raised: nothing catches the failure
\* and nothing submits the item again (lines 249-259, 335-336).
QueueAfterFailure(q, i) == q

\* Faulty variant of lines 325-327: the with block is left without waiting.
NoWait == TRUE

\* ThreadPoolExecutor.__exit__ (the with of lines 325-327) is shutdown(wait=True):
\* it returns when the queue is drained and every worker thread has finished.
PoolIdle == work_queue = <<>> /\ \A t \in Threads : thread[t] = 0

Init ==
    /\ vod_elements = <<>> /\ scan_i = 0 /\ vods = <<>> /\ scan_pc = "none"
    /\ pc = "pre_kill"
    /\ download \in BOOLEAN
    /\ max_threads \in 1..MaxThreads
    /\ courses = <<>> /\ course = 0 /\ all_vods = <<>> /\ non_completed_vods = <<>>
    /\ futures = <<>>
    /\ loop_i = 0 /\ driver = "none" /\ fetched = {} /\ downloaded = {} /\ existed = {}
    /\ files = {}
    /\ main_exc = "none" /\ pkill = 0
    /\ work_queue = <<>>
    /\ thread = [t \in Threads |-> 0]
    /\ status = [i \in Items |-> "none"]
    /\ runner = [i \in Items |-> <<>>]
    /\ session = [i \in Items |-> "none"]
    /\ dialog = [i \in Items |-> "none"]
    /\ player = [i \in Items |-> NoPlayer]
    /\ current_progress = [i \in Items |-> NoProgress]
    /\ tasks = <<>>
    /\ task1 = [i \in Items |-> 0]
    /\ exception = [i \in Items |-> "none"]

\* ---- the main thread (lines 262-336) and the __main__ block (lines 361-371)
InMain == pc \notin {"main_returned", "main_raised", "ended"}
InPool == pc \in {"submit", "result", "shutdown"}

\* An exception leaves main; inside the with block it first passes __exit__.
Raise(exc) ==
    /\ main_exc' = exc
    /\ pc' = IF InPool THEN "shutdown" ELSE "main_raised"

\* lines 267-274: every Exception of the pre-run kill is caught and logged
PreKill ==
    /\ pc = "pre_kill"
    /\ pc' = "build_driver"
    /\ UNCHANGED <<scan_vars, download, max_threads, courses, course, all_vods,
                   non_completed_vods, futures, loop_i, driver, fetched, downloaded, existed,
                   files, main_exc, pkill, pool_vars>>

\* line 276
MainBuildDriver ==
    /\ pc = "build_driver"
    /\ \/ driver' = "open" /\ pc' = "do_login" /\ UNCHANGED main_exc
       \/ Raise("Exception") /\ UNCHANGED driver
    /\ UNCHANGED <<scan_vars, download, max_threads, courses, course, all_vods,
                   non_completed_vods, futures, loop_i, fetched, downloaded, existed, files, pkill, pool_vars>>

\* line 278
MainDoLogin ==
    /\ pc = "do_login"
    /\ \/ pc' = "get_all_courses" /\ UNCHANGED main_exc
       \/ Raise("Exception")
    /\ UNCHANGED <<scan_vars, download, max_threads, courses, course, all_vods,
                   non_completed_vods, futures, loop_i, driver, fetched, downloaded, existed, files, pkill,
                   pool_vars>>

\* line 282
GetAllCourses ==
    /\ pc = "get_all_courses"
    /\ \/ /\ \E n \in 0..MaxCourses : courses' = [k \in 1..n |-> Course(k)]
          /\ pc' = "scan" /\ loop_i' = 1 /\ UNCHANGED main_exc
       \/ Raise("Exception") /\ UNCHANGED <<courses, loop_i>>
    /\ UNCHANGED <<scan_vars, download, max_threads, course, all_vods,
                   non_completed_vods, futures, driver, fetched, downloaded, existed, files, pkill, pool_vars>>

\* Faulty variant of line 297: every entry is taken to be incomplete.
AnyVod(v) == TRUE

\* not vod.is_complete (line 297)
NotComplete(v) == ~v.is_complete

\* lines 293-298, one course, whose page is one of pages
ScanCourseOn(pages) ==
    /\ pc = "scan"
    /\ loop_i <= Len(courses)
    /\ \/ /\ \E page \in pages :
                LET vs == get_all_vods_under_course(PageOfCourse(loop_i, page))
                IN  /\ all_vods' = all_vods \o vs
                    /\ non_completed_vods' = non_completed_vods \o SelectSeq(vs, NotComplete)
          /\ course' = loop_i
          /\ loop_i' = loop_i + 1
          /\ UNCHANGED <<pc, main_exc>>
       \/ Raise("Exception")
          /\ course' = loop_i
          /\ UNCHANGED <<all_vods, non_completed_vods, loop_i>>
    /\ UNCHANGED <<scan_vars, download, max_threads, courses, futures, driver, fetched,
                   downloaded, existed, files, pkill, pool_vars>>

ScanCourse == ScanCourseOn(CoursePages)

\* the same on a dashboard whose pages also have completed videos
CatalogScanCourse == ScanCourseOn(CatalogPages)

\* the loop of line 293 is exhausted; line 302
ScanEnd ==
    /\ pc = "scan"
    /\ loop_i > Len(courses)
    /\ pc' = IF download THEN "download" ELSE "close_driver"
    /\ loop_i' = 1
    /\ UNCHANGED <<scan_vars, download, max_threads, courses, course, all_vods,
                   non_completed_vods, futures, driver, fetched, downloaded, existed, files, main_exc, pkill,
                   pool_vars>>

\* lines 303-317, one vod: the video page is opened and the manifest link read
\* (line 305) before the destination file is looked up (line 310).
DownloadVod ==
    /\ pc = "download"
    /\ loop_i <= Len(all_vods)
    /\ fetched' = fetched \cup {loop_i}
    /\ LET filename == Filename(courses[course].title, all_vods[loop_i].name)
       IN  \/ \* os.path.exists(filename): the file is there, of an earlier run or
              \* of an earlier download of this run
              /\ files' = files \cup {filename}
              /\ existed' = existed \cup {loop_i}
              /\ loop_i' = loop_i + 1
              /\ UNCHANGED <<downloaded, pc, main_exc>>
           \/ \* the file is not there: lines 314-317 download it
              /\ filename \notin files
              /\ downloaded' = downloaded \cup {loop_i}
              /\ files' = files \cup {filename}
              /\ loop_i' = loop_i + 1
              /\ UNCHANGED <<existed, pc, main_exc>>
           \/ Raise("Exception") /\ UNCHANGED <<downloaded, existed, files, loop_i>>
    /\ UNCHANGED <<scan_vars, download, max_threads, courses, course, all_vods,
                   non_completed_vods, futures, driver, pkill, pool_vars>>

\* the loop of line 303 is exhausted
DownloadEnd ==
    /\ pc = "download"
    /\ loop_i > Len(all_vods)
    /\ pc' = "close_driver"
    /\ UNCHANGED <<scan_vars, download, max_threads, courses, course, all_vods,
                   non_completed_vods, futures, loop_i, driver, fetched, downloaded, existed, files, main_exc,
                   pkill, pool_vars>>

\* line 320
CloseDriver ==
    /\ pc = "close_driver"
    /\ \/ driver' = "closed" /\ pc' = "submit" /\ loop_i' = 1 /\ UNCHANGED main_exc
       \/ Raise("Exception") /\ UNCHANGED <<driver, loop_i>>
    /\ UNCHANGED <<scan_vars, download, max_threads, courses, course, all_vods,
                   non_completed_vods, futures, fetched, downloaded, existed, files, pkill, pool_vars>>

\* lines 329-333, one vod
Submit ==
    /\ pc = "submit"
    /\ loop_i <= Len(non_completed_vods)
    /\ futures' = Append(futures, [course |-> courses[course],
                                   vod |-> non_completed_vods[loop_i]])
    /\ work_queue' = Append(work_queue, loop_i)
    /\ status' = [status EXCEPT ![loop_i] = "queued"]
    /\ loop_i' = loop_i + 1
    /\ UNCHANGED <<scan_vars, pc, download, max_threads, courses, course, all_vods,
                   non_completed_vods, driver, fetched, downloaded, existed, files, main_exc, pkill,
                   thread, runner, session, dialog, player, current_progress, tasks, task1,
                   exception>>

\* the loop of line 329 is exhausted
SubmitEnd ==
    /\ pc = "submit"
    /\ loop_i > Len(non_completed_vods)
    /\ pc' = "result"
    /\ loop_i' = 1
    /\ UNCHANGED <<scan_vars, download, max_threads, courses, course, all_vods,
                   non_completed_vods, futures, driver, fetched, downloaded, existed, files, main_exc, pkill,
                   pool_vars>>

\* lines 335-336, one future: result() blocks until the work item has finished
\* and raises what the work item raised
Result ==
    /\ pc = "result"
    /\ loop_i <= Len(non_completed_vods)
    /\ \/ /\ status[loop_i] = "returned"
          /\ loop_i' = loop_i + 1
          /\ UNCHANGED <<pc, main_exc>>
       \/ /\ status[loop_i] = "failed"
          /\ Raise("Exception")
          /\ UNCHANGED loop_i
    /\ UNCHANGED <<scan_vars, download, max_threads, courses, course, all_vods,
                   non_completed_vods, futures, driver, fetched, downloaded, existed, files, pkill, pool_vars>>

\* the loop of line 335 is exhausted: the with blocks are left
ResultEnd ==
    /\ pc = "result"
    /\ loop_i > Len(non_completed_vods)
    /\ pc' = "shutdown"
    /\ UNCHANGED <<scan_vars, download, max_threads, courses, course, all_vods,
                   non_completed_vods, futures, loop_i, driver, fetched, downloaded, existed, files, main_exc,
                   pkill, pool_vars>>

\* the exit of the with of lines 325-327
Shutdown ==
    /\ pc = "shutdown"
    /\ PoolIdle
    /\ pc' = IF main_exc = "none" THEN "main_returned" ELSE "main_raised"
    /\ UNCHANGED <<scan_vars, download, max_threads, courses, course, all_vods,
                   non_completed_vods, futures, loop_i, driver, fetched, downloaded, existed, files, main_exc,
                   pkill, pool_vars>>

\* Ctrl-C: KeyboardInterrupt is raised in the main thread. It is no Exception,
\* so line 273 does not catch it; raised while __exit__ waits for the workers,
\* it ends the wait.
Interrupt ==
    /\ InMain
    /\ main_exc' = "KeyboardInterrupt"
    /\ pc' = IF pc \in {"submit", "result"} THEN "shutdown" ELSE "main_raised"
    /\ UNCHANGED <<scan_vars, download, max_threads, courses, course, all_vods,
                   non_completed_vods, futures, loop_i, driver, fetched, downloaded, existed, files, pkill,
                   pool_vars>>

\* line 367: main returned
MainReturned ==
    /\ pc = "main_returned"
    /\ pkill' = pkill + 1
    /\ pc' = "ended"
    /\ UNCHANGED <<scan_vars, download, max_threads, courses, course, all_vods,
                   non_completed_vods, futures, loop_i, driver, fetched, downloaded, existed, files, main_exc,
                   pool_vars>>

\* lines 368-371: only KeyboardInterrupt is handled; any other exception
\* leaves the try statement at once
MainRaised ==
    /\ pc = "main_raised"
    /\ pkill' = IF main_exc = "KeyboardInterrupt" THEN pkill + 1 ELSE pkill
    /\ pc' = "ended"
    /\ UNCHANGED <<scan_vars, download, max_threads, courses, course, all_vods,
                   non_completed_vods, futures, loop_i, driver, fetched, downloaded, existed, files, main_exc,
                   pool_vars>>

\* the steps of the main thread other than the scan of a course page
MainOther ==
    \/ PreKill \/ MainBuildDriver \/ MainDoLogin \/ GetAllCourses
    \/ ScanEnd \/ DownloadVod \/ DownloadEnd \/ CloseDriver
    \/ Submit \/ SubmitEnd \/ Result \/ ResultEnd \/ Shutdown
    \/ MainReturned \/ MainRaised

MainStep == ScanCourse \/ MainOther

CatalogMainStep == CatalogScanCourse \/ MainOther

\* ---- a worker thread: play_vod_in_seperate_thread (lines 249-259), play_vod
\* (lines 161-184)
\* Faulty variant of lines 161-184, 249-259: the statements of a worker run in
\* any order.
RunningAnyStep(t, st) ==
    /\ pc # "ended"
    /\ t <= max_threads
    /\ thread[t] # 0

\* Thread t runs a work item and its next statement is the one after st: the
\* statements of lines 252-259 and 162-184 run one after the other.
Running(t, st) ==
    /\ pc # "ended"
    /\ t <= max_threads
    /\ thread[t] # 0
    /\ status[thread[t]] = st

\* An automation step of the work item raised: nothing in lines 249-259
\* catches it, so line 259 is not reached and the future holds the exception.
\* The frames of the worker are gone, and the player, which nothing reads any
\* more, is no longer followed.
Raises(t, exc) ==
    /\ status' = [status EXCEPT ![thread[t]] = "failed"]
    /\ exception' = [exception EXCEPT ![thread[t]] = exc]
    /\ thread' = [thread EXCEPT ![t] = 0]
    /\ work_queue' = QueueAfterFailure(work_queue, thread[t])
    /\ current_progress' = [current_progress EXCEPT ![thread[t]] = NoProgress]
    /\ player' = [player EXCEPT ![thread[t]] = NoPlayer]
    /\ dialog' = [dialog EXCEPT ![thread[t]] = "none"]

\* a browser command of the step raised (NoSuchElementException and the other
\* exceptions of the automation library)
Fail(t) == Raises(t, "WebDriverException")

\* the worker is in a step before the poll loop, which leaves the locals alone
Goto(t, st) ==
    /\ status' = [status EXCEPT ![thread[t]] = st]
    /\ UNCHANGED <<thread, work_queue, current_progress, player, exception, dialog>>

\* the step of the poll loop succeeded
GotoPolled(t, st) ==
    /\ status' = [status EXCEPT ![thread[t]] = st]
    /\ UNCHANGED <<thread, work_queue, exception, dialog>>

\* a thread of the executor takes the next work item from the queue
TakeItem(t) ==
    /\ pc # "ended"
    /\ t <= max_threads
    /\ thread[t] = 0
    /\ work_queue # <<>>
    /\ thread' = [thread EXCEPT ![t] = Head(work_queue)]
    /\ work_queue' = Tail(work_queue)
    /\ status' = [status EXCEPT ![Head(work_queue)] = "started"]
    /\ runner' = [runner EXCEPT ![Head(work_queue)] = Append(@, t)]
    /\ UNCHANGED <<scan_vars, main_vars, session, dialog, player, current_progress, tasks, task1,
                   exception>>

\* line 252
WorkerBuildDriver(t) ==
    /\ Running(t, "started")
    /\ \/ Goto(t, "built") /\ session' = [session EXCEPT ![thread[t]] = "open"]
       \/ Fail(t) /\ UNCHANGED session
    /\ UNCHANGED <<scan_vars, main_vars, runner, tasks, task1>>

\* line 254
WorkerDoLogin(t) ==
    /\ Running(t, "built")
    /\ \/ Goto(t, "logged_in")
       \/ Fail(t)
    /\ UNCHANGED <<scan_vars, main_vars, runner, session, tasks, task1>>

\* lines 162-163: the video page is opened
Navigate(t) ==
    /\ Running(t, "logged_in")
    /\ \/ /\ status' = [status EXCEPT ![thread[t]] = "NAVIGATED"]
          /\ \E d \in {"open", "absent"} : \* the page shows a native dialog or not
                dialog' = [dialog EXCEPT ![thread[t]] = d]
          /\ UNCHANGED <<thread, work_queue, current_progress, player, exception>>
       \/ Fail(t)
    /\ UNCHANGED <<scan_vars, main_vars, runner, session, tasks, task1>>

\* Faulty variant of lines 147-153: the exception of an absent dialog is not
\* caught.
AlertRequired(d) == IF d = "open" THEN "accepted" ELSE "NoAlertPresentException"

\* lines 147-153: an open dialog is accepted (lines 149-150; alert.text of line
\* 151 then raises NoAlertPresentException); without a dialog line 149 raises
\* NoAlertPresentException. Line 152 catches it in both cases.
vod_confirm_alert_if_exists(d) == IF d = "open" THEN "accepted" ELSE "absent"

\* lines 164-165: with or without a dialog the step returns
ConfirmAlertIfExists(t) ==
    /\ Running(t, "NAVIGATED")
    /\ LET r == vod_confirm_alert_if_exists(dialog[thread[t]])
       IN  IF r \in {"accepted", "absent"}
           THEN /\ status' = [status EXCEPT ![thread[t]] = "DIALOG_CHECKED"]
                /\ dialog' = [dialog EXCEPT ![thread[t]] = r]
                /\ UNCHANGED <<thread, work_queue, current_progress, player, exception>>
           ELSE Raises(t, r)
    /\ UNCHANGED <<scan_vars, main_vars, runner, session, tasks, task1>>

\* lines 166-167 and 156-158
ClickPlayBtn(t) ==
    /\ Running(t, "DIALOG_CHECKED")
    /\ \/ /\ status' = [status EXCEPT ![thread[t]] = "PLAYING"]
          /\ UNCHANGED <<thread, work_queue, exception>>
          /\ dialog' = [dialog EXCEPT ![thread[t]] = "none"]
          /\ \E v \in Videos : \* the playback of the page's video starts
                player' = [player EXCEPT ![thread[t]] = [video |-> v, value_now |-> 0]]
          /\ UNCHANGED current_progress
       \/ Fail(t)
    /\ UNCHANGED <<scan_vars, main_vars, runner, session, tasks, task1>>

\* lines 168-169 and 133-144
SetToHighestPlaybackRate(t) ==
    /\ Running(t, "PLAYING")
    /\ \/ Goto(t, "RATE_MAXED")
       \/ Fail(t)
    /\ UNCHANGED <<scan_vars, main_vars, runner, session, tasks, task1>>

\* lines 171-173
AddTask(t) ==
    /\ Running(t, "RATE_MAXED")
    /\ Goto(t, "POLLING")
    /\ tasks' = add_task(tasks)
    /\ task1' = [task1 EXCEPT ![thread[t]] = Len(tasks')]
    /\ UNCHANGED <<scan_vars, main_vars, runner, session>>

\* Faulty variant of line 178: the task registered last is updated.
LastTask(i) == Len(tasks)

\* The task the worker of work item i updates: its task1 (line 178).
TaskToUpdate(i) == task1[i]

\* task[i]: the progress task of work item i, the one its worker registered
task == [i \in Items |-> IF task1[i] = 0 THEN NoTask ELSE tasks[task1[i]]]

\* lines 176-182, one iteration of the while loop
Poll(t) ==
    /\ Running(t, "POLLING")
    /\ LET i == thread[t]
           p == PlayerAdvance(player[i])
           r == Reading(p)
           q == vod_get_current_progress(r)
       IN  /\ player' = [player EXCEPT ![i] = p]
           /\ \/ /\ Divides(r)
                 /\ current_progress' = [current_progress EXCEPT ![i] = q]
                 /\ tasks' = update(tasks, TaskToUpdate(i), Times10000(q))
                 /\ UNCHANGED task1
                 /\ GotoPolled(t, AfterPoll(q))
              \/ \* value_max = value_min: line 130 divides by zero
                 /\ ~Divides(r)
                 /\ Raises(t, "ZeroDivisionError")
                 /\ UNCHANGED <<tasks, task1>>
              \/ \* the progress holder is not found (line 121)
                 /\ Fail(t)
                 /\ UNCHANGED <<tasks, task1>>
    /\ UNCHANGED <<scan_vars, main_vars, runner, session>>

\* line 184 and line 259: play_vod returns and the session is closed
CloseSession(t) ==
    /\ Running(t, "DONE")
    /\ \/ /\ session' = [session EXCEPT ![thread[t]] = "closed"]
          /\ status' = [status EXCEPT ![thread[t]] = "returned"]
          /\ thread' = [thread EXCEPT ![t] = 0]
          /\ current_progress' = [current_progress EXCEPT ![thread[t]] = NoProgress]
          /\ player' = [player EXCEPT ![thread[t]] = NoPlayer]
          /\ UNCHANGED <<work_queue, exception, dialog>>
       \/ Fail(t) /\ UNCHANGED session
    /\ UNCHANGED <<scan_vars, main_vars, runner, tasks, task1>>

WorkerStep(t) ==
    \/ TakeItem(t) \/ WorkerBuildDriver(t) \/ WorkerDoLogin(t) \/ Navigate(t)
    \/ ConfirmAlertIfExists(t) \/ ClickPlayBtn(t) \/ SetToHighestPlaybackRate(t)
    \/ AddTask(t) \/ Poll(t) \/ CloseSession(t)

Next == MainStep \/ Interrupt \/ \E t \in Threads : WorkerStep(t)

Spec == Init /\ [][Next]_vars

\* A run on a dashboard whose course pages show complete and incomplete videos.
CatalogNext == CatalogMainStep \/ Interrupt \/ \E t \in Threads : WorkerStep(t)

CatalogSpec == Init /\ [][CatalogNext]_vars

\* The main thread and every worker thread are operating-system threads: each
\* one that can take a step eventually takes one. Ctrl-C need never come.
FairSpec ==
    /\ Init /\ [][Next]_vars
    /\ WF_vars(MainStep)
    /\ \A t \in Threads : WF_vars(WorkerStep(t))

\* ------------------------------------------------- claims on the page scan
\* Positions of vs that are the first with their link.
FirstOfLink(vs) ==
    { i \in 1..Len(vs) : \A j \in 1..(i - 1) : vs[j].link # vs[i].link }

\* out is vs with, per link, only the first entry, in the order of vs.
IsDedupOf(vs, out) ==
    /\ \A a, b \in 1..Len(out) : a # b => out[a].link # out[b].link
    /\ \A i \in 1..Len(vs) : \E a \in 1..Len(out) : out[a].link = vs[i].link
    /\ Len(out) = Cardinality(FirstOfLink(vs))
    /\ \A i \in FirstOfLink(vs) :
          out[Cardinality({ j \in FirstOfLink(vs) : j <= i })] = vs[i]

\* C4: when the scan has returned, every matched element's link, with or
\* without completion icon, has an entry in the result, and an element without
\* icon that is the first with its link has an entry with is_complete = FALSE.
C4_IconlessKept ==
    scan_pc = "returned" =>
        \A k \in 1..Len(vod_elements) :
            /\ \E j \in 1..Len(vods) : vods[j].link = ReplaceViewPhp(vod_elements[k].href)
            /\ ( /\ vod_elements[k].icon = NoIcon
                 /\ \A h \in 1..(k - 1) :
                        ReplaceViewPhp(vod_elements[h].href) # ReplaceViewPhp(vod_elements[k].href) )
               => \E j \in 1..Len(vods) :
                      /\ vods[j].link = ReplaceViewPhp(vod_elements[k].href)
                      /\ vods[j].name = vod_elements[k].name
                      /\ vods[j].is_complete = FALSE

\* C10: the list returned by lines 90-96 has no two entries of equal link, has
\* every link of the scanned list, keeps for each link the first-encountered
\* entry (name and is_complete), and keeps the scan order.
C10_DedupFirstWins ==
    [][(scan_pc = "dedup" /\ scan_pc' = "returned") => IsDedupOf(vods, vods')]_vars

\* Two elements with icon, the same canonical link and different names were
\* scanned, and the returned list has the one entry of the first.
C10_Witness ==
    /\ scan_pc = "returned"
    /\ Len(vod_elements) = 2
    /\ vod_elements[1].icon # NoIcon /\ vod_elements[2].icon # NoIcon
    /\ ReplaceViewPhp(vod_elements[1].href) = ReplaceViewPhp(vod_elements[2].href)
    /\ vod_elements[1].name # vod_elements[2].name
    /\ vod_elements[1].icon # vod_elements[2].icon
    /\ Len(vods) = 1
    /\ vods[1].name = vod_elements[1].name

\* ------------------------------------------------------ claims on a run
Finished == { i \in Items : status[i] \in {"returned", "failed"} }
OpenSessions == { i \in Items : session[i] = "open" }
MainEnded == pc \in {"main_returned", "main_raised", "ended"}

\* C1: in a run with more work items than max_threads, the sessions created by
\* workers and not yet closed are never more than max_threads.
C1_PoolBound ==
    Len(non_completed_vods) > max_threads => Cardinality(OpenSessions) <= max_threads

\* C2: unless Ctrl-C ended it, main has returned or raised only when every
\* work item of non_completed_vods was submitted, started and has finished; it
\* raises a work item's failure only then.
C2_WaitsForAll ==
    (MainEnded /\ main_exc # "KeyboardInterrupt" /\ driver = "closed") =>
        /\ \A i \in 1..Len(non_completed_vods) : i \in Finished /\ Len(runner[i]) >= 1
        /\ work_queue = <<>>
        /\ main_exc = "Exception" <=> \E i \in Items : status[i] = "failed"

\* The first work item failed, a later one ran to its return, and main raised.
C2_Witness ==
    /\ pc = "main_raised" /\ main_exc = "Exception"
    /\ Len(non_completed_vods) >= 2
    /\ status[1] = "failed"
    /\ \E j \in 2..Len(non_completed_vods) : status[j] = "returned"

\* C3: in a run with download = TRUE no work item is submitted, no worker
\* session is created and play_vod is not entered.
C3_DownloadNoPlayback ==
    download => \A i \in Items : status[i] = "none" /\ session[i] = "none"

\* C5: a work item that has finished, by return or by a raised failure, has
\* left no open session.
C5_SessionClosed ==
    \A i \in Finished : session[i] # "open"

\* C6: when the __main__ block has ended, os.system("pkill firefox") was
\* executed.
C6_KillAtEnd ==
    pc = "ended" => pkill >= 1

\* C7: a work item is started at most once; it is in the queue only before
\* its start; no two threads run the same work item; a failed work item is
\* neither queued nor run again.
C7_ConsumedOnce ==
    /\ \A i \in Items :
          /\ Len(runner[i]) <= 1
          /\ (\E k \in 1..Len(work_queue) : work_queue[k] = i)
                => status[i] = "queued" /\ runner[i] = <<>>
          /\ status[i] \in {"returned", "failed"}
                => \A t \in Threads : thread[t] # i
    /\ \A k, l \in 1..Len(work_queue) : k # l => work_queue[k] # work_queue[l]
    /\ \A t, u \in Threads : (t # u /\ thread[t] # 0) => thread[t] # thread[u]

\* A run with two work items has ended; one of them failed, and each was
\* started once.
C7_Witness ==
    /\ pc = "ended"
    /\ Len(non_completed_vods) >= 2
    /\ \E i \in Items : status[i] = "failed"
    /\ \E i \in Items : status[i] = "returned"
    /\ \A i \in 1..Len(non_completed_vods) : Len(runner[i]) = 1

\* C8: the poll loop is left for DONE only on a reading above 0.995, and a
\* worker still in the loop after a poll has read at most 0.995.
C8_Threshold ==
    \A i \in Items :
        /\ status[i] = "DONE" =>
              /\ current_progress[i].den > 0
              /\ current_progress[i].num * 1000 > 995 * current_progress[i].den
        /\ (status[i] = "POLLING" /\ current_progress[i] # NoProgress) =>
              /\ current_progress[i].den > 0
              /\ current_progress[i].num * 1000 <= 995 * current_progress[i].den

\* A worker has read exactly 0.995 from a player that plays on to 1.0, and is
\* still in the loop.
C8_Witness ==
    \E i \in Items :
        /\ status[i] = "POLLING"
        /\ current_progress[i] = [num |-> 995, den |-> 1000]
        /\ player[i].video.stall = 1000

\* The player of work item i stalls at a position of at most 0.995.
Stalls(i) ==
    LET v == player[i].video
    IN  /\ v.value_max - v.value_min > 0
        /\ (v.stall - v.value_min) * 1000 <= 995 * (v.value_max - v.value_min)

\* The player of work item i plays on to a position above 0.995.
PlaysOn(i) ==
    LET v == player[i].video
    IN  /\ v.value_max - v.value_min > 0
        /\ (v.stall - v.value_min) * 1000 > 995 * (v.value_max - v.value_min)

\* C9: a worker polling a player that stalls at or below 0.995 stays in the
\* poll loop, step after step, unless a poll fails; while a worker polls, main
\* has not ended, unless by Ctrl-C; and a worker polling a player that plays on
\* above 0.995 eventually returns, unless a step fails or the run is
\* interrupted.
C9_StalledPollsForever ==
    /\ [][\A i \in Items :
            /\ (status[i] = "POLLING" /\ Stalls(i)) =>
                  \/ status'[i] = "POLLING" /\ player'[i].video = player[i].video
                  \/ status'[i] = "failed"
            /\ status'[i] = "POLLING" => (MainEnded' => main_exc' = "KeyboardInterrupt")]_vars
    /\ \A i \in Items :
          (status[i] = "POLLING" /\ PlaysOn(i))
              ~> (status[i] \in {"returned", "failed"} \/ pc = "ended")

\* Main waits in result() for a worker whose player has stalled at exactly
\* 0.995, after another work item has returned.
C9_Witness ==
    \E i \in Items :
        /\ status[i] = "POLLING" /\ Stalls(i)
        /\ current_progress[i] = [num |-> 995, den |-> 1000]
        /\ pc = "result" /\ loop_i = i /\ main_exc = "none"
        /\ \E j \in Items : status[j] = "returned"

\* C11: in download mode the video page of an entry whose destination file
\* already exists is never opened (no navigation, no manifest extraction) and
\* the entry is never handed to the downloader.
C11_NoFetchIfExists ==
    \A k \in existed : k \notin fetched /\ k \notin downloaded

\* C12: a progress read with value_min = value_max is handled: no work item
\* ends with the arithmetic failure of the normalisation as the exception of
\* its future.
C12_MinEqMaxHandled ==
    \A i \in Items : exception[i] # "ZeroDivisionError"

\* The positions of a worker run, in the order of the statements of lines
\* 252-259 and 162-184.
StepOrder ==
    <<"queued", "started", "built", "logged_in", "NAVIGATED", "DIALOG_CHECKED",
      "PLAYING", "RATE_MAXED", "POLLING", "DONE", "returned">>
IsNextStep(a, b) == \E k \in 1..(Len(StepOrder) - 1) : StepOrder[k] = a /\ StepOrder[k + 1] = b

\* C13: a work item moves from each step to the next one of the order session
\* created, login, NAVIGATED, DIALOG_CHECKED, PLAYING, RATE_MAXED, POLLING,
\* DONE, session closed, or to a raised failure; its session is created by the
\* first step and closed by the last; its progress task is registered by the
\* step from RATE_MAXED to POLLING; a poll (a progress value is stored or the
\* player is read again) is made only in POLLING, after the start control was
\* clicked.
C13_StepOrder ==
    [][\A i \in Items :
        /\ status'[i] # status[i] =>
              \/ status[i] = "none" /\ status'[i] = "queued"
              \/ status[i] \notin {"none", "queued"} /\ status'[i] = "failed"
              \/ IsNextStep(status[i], status'[i])
        /\ session'[i] # session[i] =>
              \/ status[i] = "started" /\ status'[i] = "built" /\ session'[i] = "open"
              \/ status[i] = "DONE" /\ status'[i] = "returned" /\ session'[i] = "closed"
        /\ task'[i].registered # task[i].registered =>
              status[i] = "RATE_MAXED" /\ status'[i] = "POLLING" /\ task'[i].registered
        /\ task'[i].completed # task[i].completed => status[i] = "POLLING"
        /\ (current_progress'[i] # current_progress[i] /\ current_progress'[i] # NoProgress) =>
              status[i] = "POLLING"
        /\ (player'[i] # player[i] /\ player[i] # NoPlayer /\ player'[i] # NoPlayer) =>
              status[i] = "POLLING"
        /\ (player[i] = NoPlayer /\ player'[i] # NoPlayer) =>
              status[i] = "DIALOG_CHECKED" /\ status'[i] = "PLAYING"
      ]_vars

C13_Witness ==
    \E i \in Items :
        /\ status[i] = "returned" /\ session[i] = "closed"
        /\ task[i].registered /\ task[i].completed = Times10000([num |-> 1000, den |-> 1000])
        /\ exception[i] = "none"

\* C14: a work item whose page shows no native dialog is not aborted by the
\* dialog check: its next step ends in DIALOG_CHECKED with nothing raised, from
\* where the start control is clicked. A work item that fails in the click of
\* the start control or in the setting of the playback rate holds a raised
\* exception, has no progress task and no progress reading, and gets none
\* afterwards.
C14_DialogAbsenceContinues ==
    [][\A i \in Items :
        /\ (status[i] = "NAVIGATED" /\ dialog[i] = "absent" /\ status'[i] # status[i]) =>
              status'[i] = "DIALOG_CHECKED" /\ exception'[i] = "none"
        /\ (status[i] \in {"DIALOG_CHECKED", "PLAYING"} /\ status'[i] # status[i]) =>
              \/ IsNextStep(status[i], status'[i]) /\ exception'[i] = "none"
              \/ /\ status'[i] = "failed" /\ exception'[i] = "WebDriverException"
                 /\ ~task'[i].registered /\ task'[i].completed = NoProgress
                 /\ current_progress'[i] = NoProgress
        /\ (status[i] = "failed" /\ ~task[i].registered) =>
              /\ status'[i] = "failed" /\ exception'[i] = exception[i]
              /\ task'[i] = task[i] /\ current_progress'[i] = NoProgress
      ]_vars

C14_Witness ==
    \E i, j \in Items :
        /\ status[i] = "DIALOG_CHECKED" /\ dialog[i] = "absent" /\ exception[i] = "none"
        /\ status[j] = "failed" /\ exception[j] = "WebDriverException"
        /\ session[j] = "open" /\ ~task[j].registered

\* C15: every submitted work item carries the course under which its video
\* was scanned, and in download mode the file looked up or written for a video
\* is named after the title of the video's own course.
C15_OwnCourse ==
    /\ \A i \in 1..Len(futures) :
          futures[i].course = courses[CourseOfLink(futures[i].vod.link)]
    /\ \A k \in existed \cup downloaded :
          Filename(courses[CourseOfLink(all_vods[k].link)].title, all_vods[k].name) \in files

\* The entries of the scan result that are not complete, in scan order.
IncompleteEntries == SelectSeq(all_vods, LAMBDA v : v.is_complete = FALSE)

\* C16: the submitted work items are the incomplete entries of the scan
\* result, one per entry and in scan order; when the submit loop is done none
\* is left out; only submitted work items are played, and none of them is an
\* entry with is_complete = TRUE.
C16_ExactlyIncomplete ==
    /\ Len(futures) <= Len(IncompleteEntries)
    /\ \A i \in 1..Len(futures) : futures[i].vod = IncompleteEntries[i]
    /\ pc = "result" => Len(futures) = Len(IncompleteEntries)
    /\ \A i \in Items :
          status[i] # "none" => i <= Len(futures) /\ ~futures[i].vod.is_complete

C16_Witness ==
    /\ pc = "result"
    /\ Len(all_vods) = 4 /\ Len(futures) = 2
    /\ all_vods[1].is_complete /\ ~all_vods[2].is_complete
    /\ ~all_vods[3].is_complete /\ all_vods[4].is_complete
    /\ status[1] = "returned" /\ status[2] = "POLLING"

\* C17: under any interleaving of the workers, a task of the shared Progress
\* that a step registers or changes is the task of exactly one work item, the
\* one a thread is running; a new task is bound to the task1 of that worker,
\* which had none, with nothing completed; a changed task is the task1 of that
\* worker in its poll loop and is set to its latest reading times 10000; no
\* task is removed and no worker's task1 is rebound.
C17_OwnTask ==
    [][/\ Len(tasks') >= Len(tasks)
       /\ \A i \in Items : task1[i] # 0 => task1'[i] = task1[i]
       /\ \A k \in 1..Len(tasks') :
            (k > Len(tasks) \/ tasks'[k] # tasks[k]) =>
              \E i \in Items :
                /\ task1'[i] = k
                /\ \A j \in Items \ {i} : task1'[j] # k
                /\ \E t \in Threads : thread[t] = i
                /\ IF k > Len(tasks)
                   THEN /\ task1[i] = 0 /\ status[i] = "RATE_MAXED"
                        /\ tasks'[k].completed = NoProgress
                   ELSE /\ task1[i] = k /\ status[i] = "POLLING"
                        /\ current_progress'[i] # NoProgress
                        /\ tasks'[k].completed = Times10000(current_progress'[i])
      ]_vars

C17_Witness ==
    /\ Len(tasks) = 2
    /\ task1[1] = 2 /\ task1[2] = 1
    /\ status[1] = "POLLING" /\ status[2] = "POLLING"
    /\ tasks[1].completed = Times10000([num |-> 500, den |-> 1000])
    /\ tasks[2].completed = Times10000([num |-> 995, den |-> 1000])
====
